---- MODULE Spec2Model ----
(***************************************************************************)
(* anim2rbx: conversion of an Assimp scene (node tree + animation clips)   *)
(* into a Roblox KeyframeSequence.                                         *)
(*                                                                         *)
(* Numbers.  Key times are ticks (non-negative integers here); a time in   *)
(* seconds is the exact quotient tick / ticks_per_second, kept as a        *)
(* reduced fraction [n, d].  IEEE division is correctly rounded, so two    *)
(* quotients that are equal as fractions are equal as f64.  Vector, matrix *)
(* and quaternion components are integers, on which the f32 arithmetic of  *)
(* the code is exact.                                                      *)
(***************************************************************************)
EXTENDS Integers, Sequences, FiniteSets, TLC

VARIABLES
    scene,        \* russimp Scene: [nodes, animations]
    bone_infos,   \* HashMap<String, NodeInfo>
    keyframes,    \* Vec<Keyframe>
    unfiltered,   \* the keyframe list handed to the last filter pass
    epsilon,      \* tolerance of the filter passes
    passes,       \* number of filter passes applied to keyframes
    dom,          \* WeakDom built by create_keyframe_sequence_dom
    pc,           \* position in the pipeline
    converter,    \* AnimationConverter: [filter_identical_bones, epsilon]
    result        \* what the last call of a public function returned

vars == <<scene, bone_infos, keyframes, unfiltered, epsilon, passes, dom, pc,
          converter, result>>

(***************************************************************************)
(* Bounds of the model.                                                    *)
(***************************************************************************)
MaxNodes == 3
MaxKeys == 2
MaxKeyframes == 3
MaxPoses == 3

(***************************************************************************)
(* Input domains.                                                          *)
(***************************************************************************)
NodeNames == {"Root", "Mid", "Child"}
TrackNames == {"Root", "Child"}
Ticks == {0, 1, 2}
\* a scene holds at most two clips and at most two channels in all
ClipCounts == {0, 1, 2}
ChannelCounts == {0, 1, 2}
TicksPerSecond == {0, 12}
PosValues == {<<2, 0, 0>>}
QuatIdentity == <<0, 0, 0, 1>>
RotValues == {<<1, 0, 0, 0>>}
Epsilons == {0, 1}

None == <<>>
Some(x) == <<x>>

\* russimp Matrix4x4 (row letters a..d, column digits 1..4); the last row is
\* not read by the converter.
Matrix4x4(a1, a2, a3, a4, b1, b2, b3, b4, c1, c2, c3, c4) ==
    [a1 |-> a1, a2 |-> a2, a3 |-> a3, a4 |-> a4,
     b1 |-> b1, b2 |-> b2, b3 |-> b3, b4 |-> b4,
     c1 |-> c1, c2 |-> c2, c3 |-> c3, c4 |-> c4]

RestIdentity == Matrix4x4(1, 0, 0, 0,  0, 1, 0, 0,  0, 0, 1, 0)
\* translated by (1, 0, 0) and turned half a turn about the x axis
RestMoved == Matrix4x4(1, 0, 0, 1,  0, -1, 0, 0,  0, 0, -1, 0)
RestTransforms == {RestIdentity, RestMoved}

(***************************************************************************)
(* Sequence helpers.                                                       *)
(***************************************************************************)
Range(s) == {s[i] : i \in DOMAIN s}

RECURSIVE Flatten(_)
Flatten(ss) == IF ss = <<>> THEN <<>> ELSE Head(ss) \o Flatten(Tail(ss))

(***************************************************************************)
(* Times in seconds: reduced fractions.                                    *)
(***************************************************************************)
RECURSIVE Gcd(_, _)
Gcd(a, b) == IF b = 0 THEN a ELSE Gcd(b, a % b)

\* key.time / ticks_per_second (converter.rs:46, 53), ticks_per_second > 0
Div(time, tps) ==
    LET g == Gcd(time, tps) IN [n |-> time \div g, d |-> tps \div g]

TimeLess(s, t) == s.n * t.d < t.n * s.d

RECURSIVE Ascending(_)
\* iteration order of a BTreeSet<OrderedFloat<f64>>
Ascending(S) ==
    IF S = {} THEN <<>>
    ELSE LET m == CHOOSE x \in S : \A y \in S \ {x} : TimeLess(x, y)
         IN <<m>> \o Ascending(S \ {m})

(***************************************************************************)
(* Maps (HashMap / BTreeMap) are functions; insert overwrites.             *)
(***************************************************************************)
EmptyMap == [k \in {} |-> None]

Insert(m, k, v) == [x \in DOMAIN m \cup {k} |-> IF x = k THEN v ELSE m[x]]

(***************************************************************************)
(* utils.rs: the bone hierarchy resolver.                                  *)
(*                                                                         *)
(* The node tree is a sequence of nodes; node 1 is scene.root, and a node  *)
(* names its parent by index (0 for the root).  A node's children are the  *)
(* nodes naming it, in index order.  An empty sequence is scene.root =     *)
(* None.                                                                   *)
(***************************************************************************)
Node(name, transformation, parent) ==
    [name |-> name, transformation |-> transformation, parent |-> parent]

NodeInfo(rest_transform, parent) ==
    [rest_transform |-> rest_transform, parent |-> parent]

RECURSIVE IndicesFrom(_, _, _)
\* node.children of node i: the indices j >= from whose parent is i
IndicesFrom(nodes, i, from) ==
    IF from > Len(nodes) THEN <<>>
    ELSE (IF nodes[from].parent = i THEN <<from>> ELSE <<>>)
         \o IndicesFrom(nodes, i, from + 1)

Children(nodes, i) == IndicesFrom(nodes, i, 1)

\* utils.rs:16-21: the channel names of every animation, pooled
AnimatedChannels(sc) ==
    UNION {{channel.name : channel \in Range(anim.channels)} :
              anim \in Range(sc.animations)}

RECURSIVE collect_node_bone_infos(_, _, _, _, _)
RECURSIVE CollectChildren(_, _, _, _, _)
\* utils.rs:36-66: visits node i with the nearest bone ancestor `parent`;
\* returns the table `transforms` as the visit of i's subtree leaves it
collect_node_bone_infos(nodes, i, parent, transforms, animated_channels) ==
    LET node == nodes[i]
        is_bone == node.name \in animated_channels
        inserted == IF is_bone
                    THEN Insert(transforms, node.name,
                                NodeInfo(node.transformation, parent))
                    ELSE transforms
        next_parent == IF is_bone THEN Some(node.name) ELSE parent
    IN CollectChildren(nodes, Children(nodes, i), next_parent, inserted,
                       animated_channels)

\* utils.rs:63-65: the loop over node.children
CollectChildren(nodes, children, next_parent, transforms, animated_channels) ==
    IF children = <<>> THEN transforms
    ELSE CollectChildren(nodes, Tail(children), next_parent,
             collect_node_bone_infos(nodes, Head(children), next_parent,
                                     transforms, animated_channels),
             animated_channels)

\* utils.rs:12-34
get_bone_infos(sc) ==
    IF sc.nodes = <<>> THEN EmptyMap
    ELSE collect_node_bone_infos(sc.nodes, 1, None, EmptyMap,
                                 AnimatedChannels(sc))

(***************************************************************************)
(* glam: Vec3 = <<x, y, z>>, Quat = <<x, y, z, w>>, Mat3 = three columns.  *)
(***************************************************************************)
Vec3Zero == <<0, 0, 0>>

\* Quat::inverse of a unit quaternion: the conjugate
QuatInverse(q) == <<-q[1], -q[2], -q[3], q[4]>>

\* Quat * Quat
QuatMul(a, b) ==
    <<a[4] * b[1] + a[1] * b[4] + a[2] * b[3] - a[3] * b[2],
      a[4] * b[2] - a[1] * b[3] + a[2] * b[4] + a[3] * b[1],
      a[4] * b[3] + a[1] * b[2] - a[2] * b[1] + a[3] * b[4],
      a[4] * b[4] - a[1] * b[1] - a[2] * b[2] - a[3] * b[3]>>

\* Mat3::from_quat: the columns x_axis, y_axis, z_axis
Mat3FromQuat(q) ==
    LET x == q[1]  y == q[2]  z == q[3]  w == q[4]
        x2 == x + x  y2 == y + y  z2 == z + z
        xx == x * x2  xy == x * y2  xz == x * z2
        yy == y * y2  yz == y * z2  zz == z * z2
        wx == w * x2  wy == w * y2  wz == w * z2
    IN <<<<1 - (yy + zz), xy + wz, xz - wy>>,
         <<xy - wz, 1 - (xx + zz), yz + wx>>,
         <<xz + wy, yz - wx, 1 - (xx + yy)>>>>

ISqrt(n) == CHOOSE r \in 0..n : r * r = n

\* v * (0.5 / sqrt(four_sq)), exact where four_sq is a square and 2 * sqrt
\* divides v (the rest rotations of RestTransforms: turns by 0 or a half)
Scaled(v, four_sq) == v \div (2 * ISqrt(four_sq))

\* Quat::from_mat3 (glam's from_rotation_axes), m = <<x_axis, y_axis, z_axis>>
QuatFromMat3(m) ==
    LET m00 == m[1][1]  m01 == m[1][2]  m02 == m[1][3]
        m10 == m[2][1]  m11 == m[2][2]  m12 == m[2][3]
        m20 == m[3][1]  m21 == m[3][2]  m22 == m[3][3]
    IN IF m22 <= 0
       THEN LET dif10 == m11 - m00
                omm22 == 1 - m22
            IN IF dif10 <= 0
               THEN LET f == omm22 - dif10
                    IN <<Scaled(f, f), Scaled(m01 + m10, f),
                         Scaled(m02 + m20, f), Scaled(m12 - m21, f)>>
               ELSE LET f == omm22 + dif10
                    IN <<Scaled(m01 + m10, f), Scaled(f, f),
                         Scaled(m12 + m21, f), Scaled(m20 - m02, f)>>
       ELSE LET sum10 == m11 + m00
                opm22 == 1 + m22
            IN IF sum10 <= 0
               THEN LET f == opm22 - sum10
                    IN <<Scaled(m02 + m20, f), Scaled(m12 + m21, f),
                         Scaled(f, f), Scaled(m01 - m10, f)>>
               ELSE LET f == opm22 + sum10
                    IN <<Scaled(m12 - m21, f), Scaled(m20 - m02, f),
                         Scaled(m01 - m10, f), Scaled(f, f)>>

(***************************************************************************)
(* converter.rs: the keyframe extractor.                                   *)
(***************************************************************************)
DefaultTicksPerSecond == 24

Key(time, value) == [time |-> time, value |-> value]

Channel(name, position_keys, rotation_keys) ==
    [name |-> name, position_keys |-> position_keys,
     rotation_keys |-> rotation_keys]

Animation(ticks_per_second, channels) ==
    [ticks_per_second |-> ticks_per_second, channels |-> channels]

CFrame(position, orientation) ==
    [position |-> position, orientation |-> orientation]

Pose(name, cframe) == [name |-> name, cframe |-> cframe]

Keyframe(time, poses) == [time |-> time, poses |-> poses]

\* defect: the clip's own rate is ignored
TicksPerSecondAlwaysDefault(anim) == DefaultTicksPerSecond

\* converter.rs:33-37
TicksPerSecondOf(anim) ==
    IF anim.ticks_per_second > 0 THEN anim.ticks_per_second
    ELSE DefaultTicksPerSecond

\* converter.rs:43-54: keys collected into a BTreeMap keyed by the time in
\* seconds; a later key at the same time replaces an earlier one
KeyMap(keys, ticks_per_second) ==
    LET at(i) == Div(keys[i].time, ticks_per_second)
        times == {at(i) : i \in DOMAIN keys}
        last(t) == CHOOSE i \in DOMAIN keys :
                      /\ at(i) = t
                      /\ \A j \in DOMAIN keys : at(j) = t => j <= i
    IN [t \in times |-> keys[last(t)].value]

\* converter.rs:64-68
ChannelData(channel, ticks_per_second) ==
    [name |-> channel.name,
     position_map |-> KeyMap(channel.position_keys, ticks_per_second),
     rotation_map |-> KeyMap(channel.rotation_keys, ticks_per_second)]

\* converter.rs:32-70: channels_data, in clip order then channel order
ChannelsData(sc) ==
    Flatten([a \in DOMAIN sc.animations |->
        [c \in DOMAIN sc.animations[a].channels |->
            ChannelData(sc.animations[a].channels[c],
                        TicksPerSecondOf(sc.animations[a]))]])

\* converter.rs:57-62: all_times
AllTimes(channels_data) ==
    UNION {DOMAIN cd.position_map \cup DOMAIN cd.rotation_map :
              cd \in Range(channels_data)}

\* defect: a rotation key alone does not count
HasKeyAtPositionOnly(channel_data, time) ==
    time \in DOMAIN channel_data.position_map

\* converter.rs:78-84
HasKeyAt(channel_data, time) ==
    \/ time \in DOMAIN channel_data.position_map
    \/ time \in DOMAIN channel_data.rotation_map

\* defect: the rest-pose translation is not subtracted
RelativePosAbsolute(channel_data, time, node_infos) ==
    IF /\ time \in DOMAIN channel_data.position_map
       /\ channel_data.name \in DOMAIN node_infos
    THEN channel_data.position_map[time]
    ELSE Vec3Zero

\* converter.rs:87-109
RelativePos(channel_data, time, node_infos) ==
    IF /\ time \in DOMAIN channel_data.position_map
       /\ channel_data.name \in DOMAIN node_infos
    THEN LET value == channel_data.position_map[time]
             rest_transform == node_infos[channel_data.name].rest_transform
             rest_pos == <<rest_transform.a4, rest_transform.b4,
                           rest_transform.c4>>
         IN <<value[1] - rest_pos[1], value[2] - rest_pos[2],
              value[3] - rest_pos[3]>>
    ELSE Vec3Zero

\* converter.rs:111-129
RelativeRot(channel_data, time, node_infos) ==
    IF /\ time \in DOMAIN channel_data.rotation_map
       /\ channel_data.name \in DOMAIN node_infos
    THEN LET value == channel_data.rotation_map[time]
             rest_transform == node_infos[channel_data.name].rest_transform
             rest_rot == QuatFromMat3(
                 <<<<rest_transform.a1, rest_transform.b1, rest_transform.c1>>,
                   <<rest_transform.a2, rest_transform.b2, rest_transform.c2>>,
                   <<rest_transform.a3, rest_transform.b3, rest_transform.c3>>>>)
         IN QuatMul(QuatInverse(rest_rot), value)
    ELSE QuatIdentity

\* converter.rs:86-156: the pose of one channel at one time
ChannelPose(channel_data, time, node_infos) ==
    LET pos == RelativePos(channel_data, time, node_infos)
        rot == RelativeRot(channel_data, time, node_infos)
        from_glam == Mat3FromQuat(rot)
    IN Pose(channel_data.name,
            CFrame(pos, [x |-> from_glam[1], y |-> from_glam[2],
                         z |-> from_glam[3]]))

RECURSIVE PosesAt(_, _, _)
\* converter.rs:77-157: the loop over channels_data for one time
PosesAt(channels_data, time, node_infos) ==
    IF channels_data = <<>> THEN <<>>
    ELSE (IF HasKeyAt(Head(channels_data), time)
          THEN <<ChannelPose(Head(channels_data), time, node_infos)>>
          ELSE <<>>)
         \o PosesAt(Tail(channels_data), time, node_infos)

RECURSIVE KeyframesAt(_, _, _)
\* converter.rs:73-163: the loop over all_times
KeyframesAt(times, channels_data, node_infos) ==
    IF times = <<>> THEN <<>>
    ELSE LET poses == PosesAt(channels_data, Head(times), node_infos)
         IN (IF poses # <<>> THEN <<Keyframe(Head(times), poses)>> ELSE <<>>)
            \o KeyframesAt(Tail(times), channels_data, node_infos)

\* converter.rs:23-166
extract_keyframes_from_scene(sc, node_infos) ==
    LET channels_data == ChannelsData(sc)
    IN KeyframesAt(Ascending(AllTimes(channels_data)), channels_data,
                   node_infos)

(***************************************************************************)
(* utils.rs: the approximate-equality primitive.                           *)
(***************************************************************************)
Abs(x) == IF x < 0 THEN -x ELSE x

\* defect: the comparisons are turned around
approx_equal_vec3_reversed(a, b, eps) ==
    /\ Abs(a[1] - b[1]) >= eps
    /\ Abs(a[2] - b[2]) >= eps
    /\ Abs(a[3] - b[3]) >= eps

\* defect: the bound is exclusive
approx_equal_vec3_strict(a, b, eps) ==
    /\ Abs(a[1] - b[1]) < eps
    /\ Abs(a[2] - b[2]) < eps
    /\ Abs(a[3] - b[3]) < eps

\* utils.rs:69-71
approx_equal_vec3(a, b, eps) ==
    /\ Abs(a[1] - b[1]) <= eps
    /\ Abs(a[2] - b[2]) <= eps
    /\ Abs(a[3] - b[3]) <= eps

\* utils.rs:74-78
approx_equal_matrix3(a, b, eps) ==
    /\ approx_equal_vec3(a.x, b.x, eps)
    /\ approx_equal_vec3(a.y, b.y, eps)
    /\ approx_equal_vec3(a.z, b.z, eps)

\* utils.rs:81-84
approx_equal_cframe(a, b, eps) ==
    /\ approx_equal_vec3(a.position, b.position, eps)
    /\ approx_equal_matrix3(a.orientation, b.orientation, eps)

(***************************************************************************)
(* converter.rs: the pose simplifier.                                      *)
(***************************************************************************)
\* converter.rs:175-180: all_bone_names
AllBoneNames(kfs) ==
    UNION {{pose.name : pose \in Range(kf.poses)} : kf \in Range(kfs)}

\* converter.rs:190: keyframe.poses.iter().find(|p| &p.name == bone_name)
FindPose(kf, bone_name) ==
    LET hits == {i \in DOMAIN kf.poses : kf.poses[i].name = bone_name}
    IN IF hits = {} THEN None
       ELSE Some(kf.poses[CHOOSE i \in hits : \A j \in hits : i <= j])

RECURSIVE BonePoses(_, _)
\* converter.rs:186-193: bone_poses, the CFrames found for one bone in
\* keyframe order
BonePoses(kfs, bone_name) ==
    IF kfs = <<>> THEN <<>>
    ELSE LET found == FindPose(Head(kfs), bone_name)
         IN (IF found = None THEN <<>> ELSE <<found[1].cframe>>)
            \o BonePoses(Tail(kfs), bone_name)

\* defect: a bone found in a single keyframe counts as unchanging
AllIdenticalFromOne(bone_poses, eps) ==
    /\ Len(bone_poses) > 0
    /\ \A i \in 2..Len(bone_poses) :
           approx_equal_cframe(bone_poses[1], bone_poses[i], eps)

\* converter.rs:196-200
AllIdentical(bone_poses, eps) ==
    /\ Len(bone_poses) > 1
    /\ \A i \in 2..Len(bone_poses) :
           approx_equal_cframe(bone_poses[1], bone_poses[i], eps)

\* converter.rs:183-209: bones_to_remove
BonesToRemove(kfs, eps) ==
    {bone_name \in AllBoneNames(kfs) :
        AllIdentical(BonePoses(kfs, bone_name), eps)}

\* the orders in which a HashSet holding S may be iterated
Orders(S) == {order \in [1..Cardinality(S) -> S] : Range(order) = S}

\* defect: the loop over the bone names ends at the first bone it marks
BonesToRemoveFirstIn(order, kfs, eps) ==
    LET marked == {i \in DOMAIN order :
                      AllIdentical(BonePoses(kfs, order[i]), eps)}
    IN IF marked = {} THEN {}
       ELSE {order[CHOOSE i \in marked : \A j \in marked : i <= j]}

RECURSIVE BonesToRemoveIn(_, _, _)
\* converter.rs:183-209: bones_to_remove, all_bone_names being iterated in
\* the order given
BonesToRemoveIn(order, kfs, eps) ==
    IF order = <<>> THEN {}
    ELSE (IF AllIdentical(BonePoses(kfs, Head(order)), eps)
          THEN {Head(order)} ELSE {})
         \cup BonesToRemoveIn(Tail(order), kfs, eps)

\* defect: the poses kept come out in reverse order
RetainReversed(poses, bones_to_remove) ==
    LET kept == SelectSeq(poses, LAMBDA pose : pose.name \notin bones_to_remove)
    IN [i \in 1..Len(kept) |-> kept[Len(kept) + 1 - i]]

RECURSIVE Retain(_, _)
\* converter.rs:215-224: keyframe.poses.retain(..)
Retain(poses, bones_to_remove) ==
    IF poses = <<>> THEN <<>>
    ELSE (IF Head(poses).name \notin bones_to_remove
          THEN <<Head(poses)>> ELSE <<>>)
         \o Retain(Tail(poses), bones_to_remove)

\* defect: emptied keyframes are kept
KeepKeyframeAlways(kf) == TRUE

\* converter.rs:230: the test of keyframes.retain(..)
KeepKeyframe(kf) == kf.poses # <<>>

\* defect: the removal loop stops after the first keyframe
RetainFirstKeyframeOnly(kfs, bones_to_remove) ==
    IF kfs = <<>> THEN <<>>
    ELSE LET kf == Keyframe(Head(kfs).time,
                            Retain(Head(kfs).poses, bones_to_remove))
         IN (IF kf.poses # <<>> THEN <<kf>> ELSE <<>>) \o Tail(kfs)

RECURSIVE RetainKeyframes(_, _)
\* converter.rs:212-230
RetainKeyframes(kfs, bones_to_remove) ==
    IF kfs = <<>> THEN <<>>
    ELSE LET kf == Keyframe(Head(kfs).time,
                            Retain(Head(kfs).poses, bones_to_remove))
         IN (IF KeepKeyframe(kf) THEN <<kf>> ELSE <<>>)
            \o RetainKeyframes(Tail(kfs), bones_to_remove)

\* converter.rs:169-238
filter_identical_bone_poses(kfs, eps) ==
    RetainKeyframes(kfs, BonesToRemove(kfs, eps))

\* converter.rs:169-238, all_bone_names being iterated in the order given
filter_identical_bone_poses_in(order, kfs, eps) ==
    RetainKeyframes(kfs, BonesToRemoveIn(order, kfs, eps))

(***************************************************************************)
(* converter.rs: the hierarchical assembler.                               *)
(*                                                                         *)
(* A WeakDom is an arena: instances[r] is the instance with referent r,    *)
(* holding its parent's referent (0 for the root) and its children's       *)
(* referents in order.                                                     *)
(***************************************************************************)
NoRef == 0

AnimationPriority == 2
EasingDirectionIn == 0
EasingStyleLinear == 0

\* `time as f32`: the single-precision number nearest to the time
AsF32(time) == [nearest_f32 |-> time]

Instance(class, name, properties) ==
    [class |-> class, name |-> name, properties |-> properties,
     parent |-> NoRef, children |-> <<>>]

\* WeakDom::new(builder): the root instance has referent 1
WeakDomNew(root) == [root_ref |-> 1, instances |-> <<root>>]

\* WeakDom::insert(parent_ref, builder); the new referent is
\* Len(d.instances) + 1
WeakDomInsert(d, parent_ref, inst) ==
    LET ref == Len(d.instances) + 1
        placed == Append(d.instances, [inst EXCEPT !.parent = parent_ref])
    IN [d EXCEPT !.instances =
           [placed EXCEPT ![parent_ref].children = Append(@, ref)]]

RECURSIVE Without(_, _)
\* children.retain(|&child| child != referent)
Without(children, referent) ==
    IF children = <<>> THEN <<>>
    ELSE (IF Head(children) # referent THEN <<Head(children)>> ELSE <<>>)
         \o Without(Tail(children), referent)

\* WeakDom::transfer_within(referent, dest_parent_ref): unlinks referent from
\* its parent's children and appends it to dest_parent_ref's children
transfer_within(d, referent, dest_parent_ref) ==
    LET old_parent_ref == d.instances[referent].parent
        reparented == [d.instances EXCEPT ![referent].parent = dest_parent_ref]
        unlinked == [reparented EXCEPT ![old_parent_ref].children =
                        Without(@, referent)]
    IN [d EXCEPT !.instances =
           [unlinked EXCEPT ![dest_parent_ref].children = Append(@, referent)]]

\* converter.rs:246-252
SequenceInstance ==
    Instance("KeyframeSequence", "KeyframeSequence",
             [Priority |-> AnimationPriority])

\* converter.rs:258-259
KeyframeInstance(kf) ==
    Instance("Keyframe", "Keyframe", [Time |-> AsF32(kf.time)])

\* converter.rs:270-291
PoseInstance(pose) ==
    Instance("Pose", pose.name,
             [CFrame |-> pose.cframe, EasingDirection |-> EasingDirectionIn,
              EasingStyle |-> EasingStyleLinear])

RECURSIVE CreatePoses(_, _, _, _)
\* converter.rs:267-296: the first loop over keyframe.poses; returns the dom
\* and pose_refs
CreatePoses(d, keyframe_ref, poses, pose_refs) ==
    IF poses = <<>> THEN [dom |-> d, pose_refs |-> pose_refs]
    ELSE LET pose == Head(poses)
             pose_ref == Len(d.instances) + 1
         IN CreatePoses(WeakDomInsert(d, keyframe_ref, PoseInstance(pose)),
                        keyframe_ref, Tail(poses),
                        Insert(pose_refs, pose.name, pose_ref))

\* converter.rs:300-309: whether, and where, one pose is moved
PoseParentRef(pose, pose_refs, infos) ==
    IF pose.name \notin DOMAIN infos THEN None
    ELSE LET parent == infos[pose.name].parent
         IN IF parent = None THEN None
            ELSE IF pose.name \in DOMAIN pose_refs
                    /\ parent[1] \in DOMAIN pose_refs
                 THEN Some(pose_refs[parent[1]])
                 ELSE None

RECURSIVE OrganizePoses(_, _, _, _)
\* converter.rs:299-310: the second loop over keyframe.poses
OrganizePoses(d, poses, pose_refs, infos) ==
    IF poses = <<>> THEN d
    ELSE LET pose == Head(poses)
             parent_ref == PoseParentRef(pose, pose_refs, infos)
             moved == IF parent_ref = None THEN d
                      ELSE transfer_within(d, pose_refs[pose.name],
                                           parent_ref[1])
         IN OrganizePoses(moved, Tail(poses), pose_refs, infos)

RECURSIVE CreateKeyframes(_, _, _)
\* converter.rs:254-312: the loop over keyframes
CreateKeyframes(d, kfs, infos) ==
    IF kfs = <<>> THEN d
    ELSE LET keyframe_ref == Len(d.instances) + 1
             with_keyframe == WeakDomInsert(d, d.root_ref,
                                            KeyframeInstance(Head(kfs)))
             created == CreatePoses(with_keyframe, keyframe_ref,
                                    Head(kfs).poses, EmptyMap)
         IN CreateKeyframes(
                OrganizePoses(created.dom, Head(kfs).poses, created.pose_refs,
                              infos),
                Tail(kfs), infos)

\* defect: an empty list yields a Keyframe without poses at time 0
create_keyframe_sequence_dom_padded(kfs, infos) ==
    CreateKeyframes(WeakDomNew(SequenceInstance),
                    IF kfs = <<>> THEN <<Keyframe(Div(0, 1), <<>>)>> ELSE kfs,
                    infos)

\* converter.rs:241-315
create_keyframe_sequence_dom(kfs, infos) ==
    CreateKeyframes(WeakDomNew(SequenceInstance), kfs, infos)

(***************************************************************************)
(* The scene handed to the converter, as the importer builds it            *)
(* (lib.rs:64, Scene::from_file).                                          *)
(***************************************************************************)
EmptyScene == [nodes |-> <<>>, animations |-> <<>>]

RECURSIVE SumLen(_)
SumLen(ss) == IF ss = <<>> THEN 0 ELSE Len(Head(ss)) + SumLen(Tail(ss))

TotalChannels(sc) ==
    SumLen([a \in DOMAIN sc.animations |-> sc.animations[a].channels])

TotalKeys(sc) ==
    SumLen(Flatten([a \in DOMAIN sc.animations |->
        [c \in DOMAIN sc.animations[a].channels |->
            sc.animations[a].channels[c].position_keys
            \o sc.animations[a].channels[c].rotation_keys]]))

LastTime(keys) == IF keys = <<>> THEN 0 ELSE keys[Len(keys)].time

\* the importer appends a node below an existing one (or the root)
ImportNode(name, transformation, parent) ==
    /\ pc = "import"
    /\ Len(scene.nodes) < MaxNodes
    /\ parent \in (IF scene.nodes = <<>> THEN {0} ELSE DOMAIN scene.nodes)
    /\ scene' = [scene EXCEPT
                    !.nodes = Append(@, Node(name, transformation, parent))]
    /\ UNCHANGED <<bone_infos, keyframes, unfiltered, epsilon, passes, dom, pc,
                 converter, result>>

\* the importer appends an animation clip
ImportAnimation(ticks_per_second) ==
    /\ pc = "import"
    /\ Len(scene.animations) + 1 \in ClipCounts
    /\ scene' = [scene EXCEPT
                    !.animations = Append(@, Animation(ticks_per_second, <<>>))]
    /\ UNCHANGED <<bone_infos, keyframes, unfiltered, epsilon, passes, dom, pc,
                 converter, result>>

\* the importer appends a channel to the last clip
ImportChannel(name) ==
    /\ pc = "import"
    /\ scene.animations # <<>>
    /\ TotalChannels(scene) + 1 \in ChannelCounts
    /\ scene' = [scene EXCEPT
                    !.animations[Len(scene.animations)].channels =
                        Append(@, Channel(name, <<>>, <<>>))]
    /\ UNCHANGED <<bone_infos, keyframes, unfiltered, epsilon, passes, dom, pc,
                 converter, result>>

\* the importer appends a position key to the last channel; keys come in
\* non-decreasing time order
ImportPositionKey(time, value) ==
    /\ pc = "import"
    /\ scene.animations # <<>>
    /\ LET a == Len(scene.animations)
           c == Len(scene.animations[a].channels)
       IN /\ c > 0
          /\ TotalKeys(scene) < MaxKeys
          /\ time >= LastTime(scene.animations[a].channels[c].position_keys)
          /\ scene' = [scene EXCEPT
                          !.animations[a].channels[c].position_keys =
                              Append(@, Key(time, value))]
    /\ UNCHANGED <<bone_infos, keyframes, unfiltered, epsilon, passes, dom, pc,
                 converter, result>>

\* the importer appends a rotation key to the last channel
ImportRotationKey(time, value) ==
    /\ pc = "import"
    /\ scene.animations # <<>>
    /\ LET a == Len(scene.animations)
           c == Len(scene.animations[a].channels)
       IN /\ c > 0
          /\ TotalKeys(scene) < MaxKeys
          /\ time >= LastTime(scene.animations[a].channels[c].rotation_keys)
          /\ scene' = [scene EXCEPT
                          !.animations[a].channels[c].rotation_keys =
                              Append(@, Key(time, value))]
    /\ UNCHANGED <<bone_infos, keyframes, unfiltered, epsilon, passes, dom, pc,
                 converter, result>>

(***************************************************************************)
(* The pipeline (lib.rs:62-91): one action per library function.           *)
(***************************************************************************)
\* lib.rs:69, 87: utils::get_bone_infos(scene)
GetBoneInfos ==
    /\ pc = "import"
    /\ bone_infos' = get_bone_infos(scene)
    /\ pc' = "bones"
    /\ UNCHANGED <<scene, keyframes, unfiltered, epsilon, passes, dom,
                 converter, result>>

\* lib.rs:70, 93: converter::extract_keyframes_from_scene(scene, bone_infos)
ExtractKeyframes ==
    /\ pc = "bones"
    /\ keyframes' = extract_keyframes_from_scene(scene, bone_infos)
    /\ pc' = "extracted"
    /\ UNCHANGED <<scene, bone_infos, unfiltered, epsilon, passes, dom,
                 converter, result>>

\* lib.rs:72-74, 97: converter::filter_identical_bone_poses(keyframes, eps),
\* on the extracted list or on a list the caller made
FilterIdenticalBonePoses(eps) ==
    /\ pc \in {"extracted", "build"}
    /\ unfiltered' = keyframes
    /\ keyframes' = filter_identical_bone_poses(keyframes, eps)
    /\ epsilon' = eps
    /\ passes' = 1
    /\ pc' = "filtered"
    /\ UNCHANGED <<scene, bone_infos, dom,
                 converter, result>>

\* a second pass over the filtered list with the same tolerance
FilterAgain ==
    /\ pc = "filtered"
    /\ passes = 1
    /\ keyframes' = filter_identical_bone_poses(keyframes, epsilon)
    /\ passes' = 2
    /\ UNCHANGED <<scene, bone_infos, unfiltered, epsilon, dom, pc,
                 converter, result>>

\* lib.rs:81-83, 89: converter::create_keyframe_sequence_dom(keyframes, bone_infos)
CreateKeyframeSequenceDom ==
    /\ pc \in {"extracted", "filtered", "build"}
    /\ dom' = create_keyframe_sequence_dom(keyframes, bone_infos)
    /\ pc' = "assembled"
    /\ UNCHANGED <<scene, bone_infos, keyframes, unfiltered, epsilon, passes,
                 converter, result>>

(***************************************************************************)
(* A caller of the public functions makes its own keyframe list            *)
(* (types.rs:25-31, tests/integration_tests.rs:110-140).                   *)
(***************************************************************************)
IdentityMatrix3 == [x |-> <<1, 0, 0>>, y |-> <<0, 1, 0>>, z |-> <<0, 0, 1>>]

PoseCFrames == {CFrame(<<x, 0, 0>>, IdentityMatrix3) : x \in 0..2}

RECURSIVE TotalPoses(_)
TotalPoses(kfs) ==
    IF kfs = <<>> THEN 0 ELSE Len(Head(kfs).poses) + TotalPoses(Tail(kfs))

\* the caller appends a keyframe without poses, one second after the last
PushKeyframe ==
    /\ pc = "build"
    /\ Len(keyframes) < MaxKeyframes
    /\ keyframes' = Append(keyframes, Keyframe(Div(Len(keyframes), 1), <<>>))
    /\ UNCHANGED <<scene, bone_infos, unfiltered, epsilon, passes, dom, pc,
                 converter, result>>

\* the caller appends a pose to the last keyframe
PushPose(name, cframe) ==
    /\ pc = "build"
    /\ keyframes # <<>>
    /\ TotalPoses(keyframes) < MaxPoses
    /\ keyframes' = [keyframes EXCEPT
                        ![Len(keyframes)].poses = Append(@, Pose(name, cframe))]
    /\ UNCHANGED <<scene, bone_infos, unfiltered, epsilon, passes, dom, pc,
                 converter, result>>

(***************************************************************************)
(* Spec: resolver, extractor and simplifier over imported animations (the  *)
(* node tree drawn from Skeletons), and the simplifier over a list the     *)
(* caller made.                                                            *)
(***************************************************************************)
Skeletons ==
    {<<>>,
     <<Node("Root", RestMoved, 0)>>,
     <<Node("Root", RestIdentity, 0), Node("Mid", RestIdentity, 1),
       Node("Child", RestMoved, 2)>>}

Idle ==
    /\ bone_infos = EmptyMap
    /\ keyframes = <<>>
    /\ unfiltered = <<>>
    /\ epsilon = 0
    /\ passes = 0
    /\ dom = None
    /\ converter = None
    /\ result = None

Init ==
    \/ /\ scene \in {[nodes |-> nodes, animations |-> <<>>] :
                        nodes \in Skeletons}
       /\ Idle
       /\ pc = "import"
    \/ /\ scene = EmptyScene
       /\ Idle
       /\ pc = "build"

Next ==
    \/ \E tps \in TicksPerSecond : ImportAnimation(tps)
    \/ \E name \in TrackNames : ImportChannel(name)
    \/ \E time \in Ticks, value \in PosValues : ImportPositionKey(time, value)
    \/ \E time \in Ticks, value \in RotValues : ImportRotationKey(time, value)
    \/ GetBoneInfos
    \/ ExtractKeyframes
    \/ PushKeyframe
    \/ \E name \in TrackNames, cframe \in PoseCFrames : PushPose(name, cframe)
    \/ \E eps \in Epsilons : FilterIdenticalBonePoses(eps)

Spec == Init /\ [][Next]_vars

(***************************************************************************)
(* SpecResolve: the resolver over every node tree of at most MaxNodes      *)
(* nodes, the track names drawn from TrackLists.                           *)
(***************************************************************************)
Track(name) == Channel(name, <<>>, <<>>)

TrackLists ==
    {<<>>,
     <<Animation(0, <<Track("Root")>>)>>,
     <<Animation(0, <<Track("Child")>>)>>,
     <<Animation(0, <<Track("Root"), Track("Child")>>)>>,
     <<Animation(0, <<Track("Child")>>), Animation(0, <<Track("Root")>>)>>}

InitResolve ==
    /\ scene \in {[nodes |-> <<>>, animations |-> animations] :
                     animations \in TrackLists}
    /\ Idle
    /\ pc = "import"

NextResolve ==
    \/ \E name \in NodeNames, transformation \in RestTransforms,
          parent \in 0..MaxNodes : ImportNode(name, transformation, parent)
    \/ GetBoneInfos

SpecResolve == InitResolve /\ [][NextResolve]_vars

(***************************************************************************)
(* SpecFilter: the simplifier, once and twice, over every list of at most  *)
(* MaxKeyframes keyframes and MaxPoses poses.                              *)
(***************************************************************************)
InitFilter ==
    /\ scene = EmptyScene
    /\ Idle
    /\ pc = "build"

NextFilter ==
    \/ PushKeyframe
    \/ \E name \in TrackNames, cframe \in PoseCFrames : PushPose(name, cframe)
    \/ \E eps \in Epsilons : FilterIdenticalBonePoses(eps)
    \/ FilterAgain

SpecFilter == InitFilter /\ [][NextFilter]_vars

(***************************************************************************)
(* SpecDom: the assembler over every such list and every table of          *)
(* BoneTables.                                                             *)
(***************************************************************************)
ParentChoices == {None} \cup {Some(name) : name \in NodeNames}

BoneTables ==
    UNION {[bones -> {NodeInfo(RestIdentity, parent) :
                         parent \in ParentChoices}] :
              bones \in SUBSET NodeNames}

InitDom ==
    /\ scene = EmptyScene
    /\ bone_infos \in BoneTables
    /\ keyframes = <<>>
    /\ unfiltered = <<>>
    /\ epsilon = 0
    /\ passes = 0
    /\ dom = None
    /\ converter = None
    /\ result = None
    /\ pc = "build"

NextDom ==
    \/ PushKeyframe
    \/ \E name \in NodeNames :
           PushPose(name, CFrame(Vec3Zero, IdentityMatrix3))
    \/ CreateKeyframeSequenceDom

SpecDom == InitDom /\ [][NextDom]_vars

(***************************************************************************)
(* SpecAssemble: resolver, extractor and assembler over imported           *)
(* animations, and the assembler over the empty list and every table of    *)
(* BoneTables.                                                             *)
(***************************************************************************)
InitAssemble == Init \/ InitDom

NextAssemble ==
    \/ \E tps \in TicksPerSecond : ImportAnimation(tps)
    \/ \E name \in TrackNames : ImportChannel(name)
    \/ \E time \in Ticks, value \in PosValues : ImportPositionKey(time, value)
    \/ \E time \in Ticks, value \in RotValues : ImportRotationKey(time, value)
    \/ GetBoneInfos
    \/ ExtractKeyframes
    \/ CreateKeyframeSequenceDom

SpecAssemble == InitAssemble /\ [][NextAssemble]_vars

(***************************************************************************)
(* SpecApprox: utils::approx_equal_cframe called on two transforms that    *)
(* differ from the identity transform in at most one component each.       *)
(***************************************************************************)
\* what a call of a public function returned
Returned(call, args, value) == [call |-> call, args |-> args, value |-> value]

\* the transform with the 12 components v: translation, then the rows x, y, z
CFrameOf(v) ==
    CFrame(<<v[1], v[2], v[3]>>,
           [x |-> <<v[4], v[5], v[6]>>,
            y |-> <<v[7], v[8], v[9]>>,
            z |-> <<v[10], v[11], v[12]>>])

IdentityComponents == <<0, 0, 0, 1, 0, 0, 0, 1, 0, 0, 0, 1>>

ApproxCFrames ==
    {CFrameOf([IdentityComponents EXCEPT ![k] = @ + d]) :
        k \in 1..12, d \in 0..2}

\* utils.rs:81-84: a caller compares two transforms
ApproxEqualCFrame(a, b, eps) ==
    /\ result' = Returned("approx_equal_cframe", <<a, b, eps>>,
                          approx_equal_cframe(a, b, eps))
    /\ UNCHANGED <<scene, bone_infos, keyframes, unfiltered, epsilon, passes,
                   dom, pc, converter>>

InitApprox ==
    /\ scene = EmptyScene
    /\ Idle
    /\ pc = "build"

NextApprox ==
    \E a, b \in ApproxCFrames, eps \in Epsilons : ApproxEqualCFrame(a, b, eps)

SpecApprox == InitApprox /\ [][NextApprox]_vars

(***************************************************************************)
(* lib.rs: AnimationConverter.  A file either fails to load with an        *)
(* import error or holds a scene.                                          *)
(***************************************************************************)
Ok(x) == [ok |-> x]
Err(e) == [err |-> e]
IsErr(r) == "err" \in DOMAIN r

ImportErrors == {"missing", "unreadable", "unparseable"}

\* a file the importer rejects with error e, and a file holding scene sc
Broken(e) == [error |-> Some(e), scene |-> None]
Holding(sc) == [error |-> None, scene |-> Some(sc)]

\* defect: a file that fails to load is taken for an empty scene
SceneFromFileOrEmpty(file) ==
    IF file.error # None THEN Ok(EmptyScene) ELSE Ok(file.scene[1])

\* lib.rs:64, 87: Scene::from_file(file_path, vec![])
SceneFromFile(file) ==
    IF file.error # None THEN Err(file.error[1]) ELSE Ok(file.scene[1])

\* lib.rs:43-48
new(filter_identical_bones, eps) ==
    [filter_identical_bones |-> filter_identical_bones, epsilon |-> eps]

\* lib.rs:51-54
with_filter_identical_bones(self, enabled) ==
    [self EXCEPT !.filter_identical_bones = enabled]

\* lib.rs:57-60
with_epsilon(self, eps) == [self EXCEPT !.epsilon = eps]

\* defect: the list is filtered whatever the flag says
convert_scene_to_keyframes_filtering(self, sc) ==
    filter_identical_bone_poses(
        extract_keyframes_from_scene(sc, get_bone_infos(sc)), self.epsilon)

\* lib.rs:69-78
convert_scene_to_keyframes(self, sc) ==
    LET infos == get_bone_infos(sc)
        kfs == extract_keyframes_from_scene(sc, infos)
    IN IF self.filter_identical_bones
       THEN filter_identical_bone_poses(kfs, self.epsilon)
       ELSE kfs

\* lib.rs:81-83
keyframes_to_weakdom(self, kfs, infos) ==
    create_keyframe_sequence_dom(kfs, infos)

\* the locals of a call that ran resolver, extractor and simplifier over sc
Ran(self, sc) ==
    LET infos == get_bone_infos(sc)
    IN /\ scene' = sc
       /\ bone_infos' = infos
       /\ unfiltered' = extract_keyframes_from_scene(sc, infos)
       /\ keyframes' = convert_scene_to_keyframes(self, sc)
       /\ epsilon' = self.epsilon
       /\ passes' = IF self.filter_identical_bones THEN 1 ELSE 0

\* the locals of a call that returned before any stage ran
NothingRan ==
    /\ scene' = EmptyScene
    /\ bone_infos' = EmptyMap
    /\ unfiltered' = <<>>
    /\ keyframes' = <<>>
    /\ epsilon' = 0
    /\ passes' = 0
    /\ dom' = None

\* lib.rs:43-48
New(filter_identical_bones, eps) ==
    /\ converter' = new(filter_identical_bones, eps)
    /\ result' = Returned("new", <<filter_identical_bones, eps>>, converter')
    /\ UNCHANGED <<scene, bone_infos, keyframes, unfiltered, epsilon, passes,
                   dom, pc>>

\* lib.rs:51-54
WithFilterIdenticalBones(enabled) ==
    /\ converter # None
    /\ converter' = with_filter_identical_bones(converter, enabled)
    /\ result' = Returned("with_filter_identical_bones", <<enabled>>,
                          converter')
    /\ UNCHANGED <<scene, bone_infos, keyframes, unfiltered, epsilon, passes,
                   dom, pc>>

\* lib.rs:57-60
WithEpsilon(eps) ==
    /\ converter # None
    /\ converter' = with_epsilon(converter, eps)
    /\ result' = Returned("with_epsilon", <<eps>>, converter')
    /\ UNCHANGED <<scene, bone_infos, keyframes, unfiltered, epsilon, passes,
                   dom, pc>>

\* lib.rs:63-66
ConvertFileToKeyframes(file) ==
    /\ converter # None
    /\ LET loaded == SceneFromFile(file)
       IN IF IsErr(loaded)
          THEN /\ NothingRan
               /\ pc' = "failed"
               /\ result' = Returned("convert_file_to_keyframes", <<file>>,
                                     loaded)
          ELSE /\ Ran(converter, loaded.ok)
               /\ dom' = None
               /\ pc' = "converted"
               /\ result' = Returned("convert_file_to_keyframes", <<file>>,
                                     Ok(keyframes'))
    /\ UNCHANGED converter

\* lib.rs:69-78
ConvertSceneToKeyframes(sc) ==
    /\ converter # None
    /\ Ran(converter, sc)
    /\ dom' = None
    /\ pc' = "converted"
    /\ result' = Returned("convert_scene_to_keyframes", <<sc>>, keyframes')
    /\ UNCHANGED converter

\* lib.rs:81-83, on the list and the table of the last conversion
KeyframesToWeakdom ==
    /\ converter # None
    /\ pc = "converted"
    /\ dom' = keyframes_to_weakdom(converter, keyframes, bone_infos)
    /\ pc' = "assembled"
    /\ result' = Returned("keyframes_to_weakdom", <<keyframes, bone_infos>>,
                          dom')
    /\ UNCHANGED <<scene, bone_infos, keyframes, unfiltered, epsilon, passes,
                   converter>>

\* lib.rs:86-91
ConvertFileToWeakdom(file) ==
    /\ converter # None
    /\ LET loaded == SceneFromFile(file)
       IN IF IsErr(loaded)
          THEN /\ NothingRan
               /\ pc' = "failed"
               /\ result' = Returned("convert_file_to_weakdom", <<file>>,
                                     loaded)
          ELSE /\ Ran(converter, loaded.ok)
               /\ dom' = keyframes_to_weakdom(converter, keyframes',
                                              bone_infos')
               /\ pc' = "assembled"
               /\ result' = Returned("convert_file_to_weakdom", <<file>>,
                                     Ok(dom'))
    /\ UNCHANGED converter

(***************************************************************************)
(* SpecConvert: a converter made by new and the builder calls, and its     *)
(* conversions of the files of Files.                                      *)
(***************************************************************************)
RootOnly == <<Node("Root", RestMoved, 0)>>

RootMidChild ==
    <<Node("Root", RestIdentity, 0), Node("Mid", RestIdentity, 1),
      Node("Child", RestMoved, 2)>>

Scenes ==
    {EmptyScene,
     [nodes |-> RootOnly, animations |-> <<>>],
     [nodes |-> RootOnly, animations |-> <<Animation(12, <<>>)>>],
     [nodes |-> <<>>,
      animations |-> <<Animation(0,
          <<Channel("Root", <<Key(0, <<2, 0, 0>>)>>, <<>>)>>)>>],
     [nodes |-> RootOnly,
      animations |-> <<Animation(12,
          <<Channel("Root", <<Key(0, <<2, 0, 0>>), Key(1, <<2, 0, 0>>)>>,
                    <<>>)>>)>>],
     [nodes |-> RootMidChild,
      animations |-> <<Animation(12,
          <<Channel("Root", <<Key(0, <<2, 0, 0>>), Key(1, <<3, 0, 0>>)>>,
                    <<>>),
            Channel("Child", <<>>, <<Key(0, <<1, 0, 0, 0>>)>>)>>)>>],
     [nodes |-> RootMidChild,
      animations |-> <<Animation(12,
          <<Channel("Child", <<Key(0, <<2, 0, 0>>), Key(2, <<4, 0, 0>>)>>,
                    <<>>)>>),
          Animation(0,
          <<Channel("Root", <<>>, <<Key(0, QuatIdentity),
                                    Key(4, QuatIdentity)>>)>>)>>]}

Files == {Broken(e) : e \in ImportErrors} \cup {Holding(sc) : sc \in Scenes}

InitConvert ==
    /\ scene = EmptyScene
    /\ Idle
    /\ pc = "new"

NextConvert ==
    \/ \E f \in BOOLEAN, eps \in Epsilons : New(f, eps)
    \/ \E enabled \in BOOLEAN : WithFilterIdenticalBones(enabled)
    \/ \E eps \in Epsilons : WithEpsilon(eps)
    \/ \E file \in Files : ConvertFileToKeyframes(file)
    \/ \E sc \in Scenes : ConvertSceneToKeyframes(sc)
    \/ KeyframesToWeakdom
    \/ \E file \in Files : ConvertFileToWeakdom(file)

SpecConvert == InitConvert /\ [][NextConvert]_vars

(***************************************************************************)
(* SpecRuns: resolver, extractor and simplifier run twice over one scene,  *)
(* each run iterating the simplifier's set of bone names in an order of    *)
(* its own.                                                                *)
(***************************************************************************)
\* converter.rs:169: the filter over the extracted list, in the order given
FilterIdenticalBonePosesIn(eps, order) ==
    /\ pc = "extracted"
    /\ order \in Orders(AllBoneNames(keyframes))
    /\ unfiltered' = keyframes
    /\ keyframes' = filter_identical_bone_poses_in(order, keyframes, eps)
    /\ epsilon' = eps
    /\ passes' = 1
    /\ pc' = "filtered"
    /\ result' = Returned("filter_identical_bone_poses", <<order>>, keyframes')
    /\ UNCHANGED <<scene, bone_infos, dom, converter>>

\* lib.rs:69-78: the three stages once more over the same scene, with the
\* same tolerance; the record keeps the orders of both runs
RunAgain(order) ==
    /\ pc = "filtered"
    /\ LET infos == get_bone_infos(scene)
           kfs == extract_keyframes_from_scene(scene, infos)
       IN /\ order \in Orders(AllBoneNames(kfs))
          /\ result' = Returned("convert_scene_to_keyframes",
                                <<result.args[1], order>>,
                                filter_identical_bone_poses_in(order, kfs,
                                                               epsilon))
    /\ pc' = "rerun"
    /\ UNCHANGED <<scene, bone_infos, keyframes, unfiltered, epsilon, passes,
                   dom, converter>>

\* two bones that keep their pose over two keyframes, and a third keyframe
\* in which one of them moves
RunScenes ==
    Scenes \cup
    {[nodes |-> RootMidChild,
      animations |-> <<Animation(12,
          <<Channel("Child", <<Key(0, <<2, 0, 0>>), Key(1, <<2, 0, 0>>)>>,
                    <<>>),
            Channel("Root", <<Key(0, <<2, 0, 0>>), Key(1, <<2, 0, 0>>)>>,
                    <<>>)>>)>>],
     [nodes |-> RootMidChild,
      animations |-> <<Animation(12,
          <<Channel("Child", <<Key(0, <<2, 0, 0>>), Key(1, <<2, 0, 0>>)>>,
                    <<>>)>>),
          Animation(0,
          <<Channel("Root", <<Key(0, <<2, 0, 0>>), Key(2, <<2, 0, 0>>),
                              Key(4, <<3, 0, 0>>)>>, <<>>)>>)>>]}

InitRuns ==
    /\ scene \in RunScenes
                 \cup {[nodes |-> nodes, animations |-> <<>>] :
                          nodes \in Skeletons}
    /\ Idle
    /\ pc = "import"

NextRuns ==
    \/ \E tps \in TicksPerSecond : ImportAnimation(tps)
    \/ \E name \in TrackNames : ImportChannel(name)
    \/ \E time \in Ticks, value \in PosValues : ImportPositionKey(time, value)
    \/ \E time \in Ticks, value \in RotValues : ImportRotationKey(time, value)
    \/ GetBoneInfos
    \/ ExtractKeyframes
    \/ \E eps \in Epsilons, order \in Orders(AllBoneNames(keyframes)) :
           FilterIdenticalBonePosesIn(eps, order)
    \/ \E order \in Orders(TrackNames) \cup Orders({"Root"})
                    \cup Orders({"Child"}) \cup Orders({}) : RunAgain(order)

SpecRuns == InitRuns /\ [][NextRuns]_vars

(***************************************************************************)
(* Properties.  The scene is read directly: a track is a channel together  *)
(* with the rate of its clip, and a key at tick k of a track of rate r     *)
(* lies at time t iff k / r = t, that is k * t.d = t.n * r.                *)
(***************************************************************************)
RateOf(anim) ==
    IF anim.ticks_per_second > 0 THEN anim.ticks_per_second ELSE 24

\* every track of the scene, in clip order then track order
SceneTracks ==
    Flatten([a \in DOMAIN scene.animations |->
        [c \in DOMAIN scene.animations[a].channels |->
            [name |-> scene.animations[a].channels[c].name,
             rate |-> RateOf(scene.animations[a]),
             position_keys |-> scene.animations[a].channels[c].position_keys,
             rotation_keys |-> scene.animations[a].channels[c].rotation_keys]]])

KeyIsAt(key, rate, t) == key.time * t.d = t.n * rate

PositionKeysAt(track, t) ==
    {key \in Range(track.position_keys) : KeyIsAt(key, track.rate, t)}

RotationKeysAt(track, t) ==
    {key \in Range(track.rotation_keys) : KeyIsAt(key, track.rate, t)}

TrackHasKeyAt(track, t) ==
    PositionKeysAt(track, t) \cup RotationKeysAt(track, t) # {}

RECURSIVE TracksWithKeyAt(_, _)
\* the tracks holding a key at t, in order
TracksWithKeyAt(tracks, t) ==
    IF tracks = <<>> THEN <<>>
    ELSE (IF TrackHasKeyAt(Head(tracks), t) THEN <<Head(tracks)>> ELSE <<>>)
         \o TracksWithKeyAt(Tail(tracks), t)

KeyframeTimes == {keyframes[i].time : i \in DOMAIN keyframes}

\* C1: after extraction the keyframe times are strictly ascending (so free
\* of duplicates), every key of every track of every clip lies at one of
\* them, and each of them is the time of some key; a key's time is its tick
\* over its clip's rate, 24 when the clip's rate is not positive.
C1_KeyframeTimes ==
    pc = "extracted" =>
        /\ \A i \in DOMAIN keyframes : \A j \in DOMAIN keyframes :
               i < j => TimeLess(keyframes[i].time, keyframes[j].time)
        /\ \A track \in Range(SceneTracks) :
               \A key \in Range(track.position_keys)
                          \cup Range(track.rotation_keys) :
                   \E t \in KeyframeTimes : KeyIsAt(key, track.rate, t)
        /\ \A t \in KeyframeTimes :
               \E track \in Range(SceneTracks) : TrackHasKeyAt(track, t)
        /\ \A t \in KeyframeTimes : t.d > 0 /\ t.n >= 0

\* C1 happens: two clips, one of rate 12 and one without a rate, whose keys
\* at different ticks fall on the same time and share one keyframe.
C1_Witness ==
    /\ pc = "extracted"
    /\ Len(keyframes) = 1
    /\ \E a, b \in DOMAIN scene.animations :
           /\ scene.animations[a].ticks_per_second = 12
           /\ scene.animations[b].ticks_per_second <= 0
           /\ \E ca \in Range(scene.animations[a].channels),
                 cb \in Range(scene.animations[b].channels) :
                  \E ka \in Range(ca.position_keys),
                     kb \in Range(cb.rotation_keys) :
                      /\ ka.time = 1
                      /\ kb.time = 2
                      /\ keyframes[1].time = [n |-> 1, d |-> 12]

\* C2: in each extracted keyframe the poses are, in order, one per track
\* holding a position or rotation key at exactly the keyframe's time, named
\* after that track; a track without a key there has no pose, and a track
\* with a key there has one whether or not bone_infos knows its name.
C2_PoseIffKey ==
    pc = "extracted" =>
        \A i \in DOMAIN keyframes :
            LET tracks == TracksWithKeyAt(SceneTracks, keyframes[i].time)
            IN /\ Len(keyframes[i].poses) = Len(tracks)
               /\ \A j \in DOMAIN tracks :
                      keyframes[i].poses[j].name = tracks[j].name

\* C2 happens: a keyframe holds the pose of a track unknown to bone_infos
\* and no pose of another track, keyed at another time only.
C2_Witness ==
    /\ pc = "extracted"
    /\ \E i \in DOMAIN keyframes :
           \E present, absent \in Range(SceneTracks) :
               /\ present.name # absent.name
               /\ TrackHasKeyAt(present, keyframes[i].time)
               /\ present.name \notin DOMAIN bone_infos
               /\ ~TrackHasKeyAt(absent, keyframes[i].time)
               /\ absent.rotation_keys # <<>>
               /\ \A j \in DOMAIN keyframes[i].poses :
                      keyframes[i].poses[j].name = present.name

\* C3: the translation of the pose of a track at a keyframe's time is the
\* position key the track holds there minus the rest-pose translation of
\* its bone_infos entry, component by component, and (0, 0, 0) when the
\* track holds no position key there or has no bone_infos entry.
C3_Translation ==
    pc = "extracted" =>
        \A i \in DOMAIN keyframes :
            LET t == keyframes[i].time
                tracks == TracksWithKeyAt(SceneTracks, t)
            IN \A j \in DOMAIN tracks \cap DOMAIN keyframes[i].poses :
                   LET translation == keyframes[i].poses[j].cframe.position
                       name == tracks[j].name
                   IN IF PositionKeysAt(tracks[j], t) # {}
                         /\ name \in DOMAIN bone_infos
                      THEN \E key \in PositionKeysAt(tracks[j], t) :
                             LET rest == bone_infos[name].rest_transform
                             IN translation = <<key.value[1] - rest.a4,
                                                key.value[2] - rest.b4,
                                                key.value[3] - rest.c4>>
                      ELSE translation = <<0, 0, 0>>

\* C3 happens: rest (1, 0, 0) and key (2, 0, 0) give (1, 0, 0), and the same
\* bone with a rotation key alone gives (0, 0, 0).
C3_Witness ==
    /\ pc = "extracted"
    /\ "Root" \in DOMAIN bone_infos
    /\ bone_infos["Root"].rest_transform.a4 = 1
    /\ \E i, k \in DOMAIN keyframes :
           /\ keyframes[i].poses[1].name = "Root"
           /\ keyframes[i].poses[1].cframe.position = <<1, 0, 0>>
           /\ keyframes[k].poses[1].name = "Root"
           /\ keyframes[k].poses[1].cframe.position = <<0, 0, 0>>
           /\ \E track \in Range(SceneTracks) :
                  /\ Range(track.position_keys) = {Key(0, <<2, 0, 0>>)}
                  /\ RotationKeysAt(track, keyframes[k].time) # {}

(***************************************************************************)
(* Properties of the simplifier.  A bone appears in a keyframe when some   *)
(* pose there bears its name; its transform there is that of the pose a    *)
(* lookup by name yields, the first so named.                              *)
(***************************************************************************)
Appears(kf, b) == \E j \in DOMAIN kf.poses : kf.poses[j].name = b

Where(kfs, b) == {i \in DOMAIN kfs : Appears(kfs[i], b)}

Transform(kf, b) ==
    kf.poses[CHOOSE j \in DOMAIN kf.poses :
                 /\ kf.poses[j].name = b
                 /\ \A k \in 1..(j - 1) : kf.poses[k].name # b].cframe

Unchanging(kfs, b, eps) ==
    /\ Cardinality(Where(kfs, b)) > 1
    /\ LET first == CHOOSE i \in Where(kfs, b) : \A k \in Where(kfs, b) : i <= k
       IN \A i \in Where(kfs, b) :
              approx_equal_cframe(Transform(kfs[first], b),
                                  Transform(kfs[i], b), eps)

RECURSIVE PosesNamed(_, _)
\* every pose named b with the time of its keyframe, in list order
PosesNamed(kfs, b) ==
    IF kfs = <<>> THEN <<>>
    ELSE LET kf == Head(kfs)
             hits == [j \in DOMAIN kf.poses |->
                         IF kf.poses[j].name = b
                         THEN <<[time |-> kf.time, pose |-> kf.poses[j]]>>
                         ELSE <<>>]
         IN Flatten(hits) \o PosesNamed(Tail(kfs), b)

Filtered == pc = "filtered" /\ passes = 1

\* C7: no keyframe without poses is in the list the extractor returns, nor
\* in the list a filter pass leaves, whatever list the pass was given.
C7_NoEmptyKeyframe ==
    (pc = "extracted" \/ pc = "filtered") =>
        \A i \in DOMAIN keyframes : keyframes[i].poses # <<>>

\* C7 happens: a pass removed every pose of some keyframe that had poses,
\* dropped it, and kept another keyframe.
C7_Witness ==
    /\ Filtered
    /\ keyframes # <<>>
    /\ \E i \in DOMAIN unfiltered :
           /\ unfiltered[i].poses # <<>>
           /\ \A k \in DOMAIN keyframes : keyframes[k].time # unfiltered[i].time

\* C10: no two poses of an extracted keyframe bear the same name.
C10_OnePosePerBone ==
    pc = "extracted" =>
        \A i \in DOMAIN keyframes :
            \A j, k \in DOMAIN keyframes[i].poses :
                j # k => keyframes[i].poses[j].name # keyframes[i].poses[k].name

\* C4: a filter pass with tolerance eps removes bone b iff b appears in more
\* than one keyframe and its transform in each of them is within eps of its
\* transform in the first of them; every pose of a removed bone is gone
\* from every keyframe, and every pose of any other bone is still in its
\* keyframe.
C4_RemovedIffUnchanging ==
    Filtered =>
        \A b \in AllBoneNames(unfiltered) :
            IF Unchanging(unfiltered, b, epsilon)
            THEN PosesNamed(keyframes, b) = <<>>
            ELSE PosesNamed(keyframes, b) = PosesNamed(unfiltered, b)

\* C4 happens: one bone was removed and another, found in one keyframe
\* only, was kept.
C4_Witness ==
    /\ Filtered
    /\ \E b, c \in AllBoneNames(unfiltered) :
           /\ Unchanging(unfiltered, b, epsilon)
           /\ Where(keyframes, b) = {}
           /\ Cardinality(Where(unfiltered, c)) = 1
           /\ Where(keyframes, c) # {}

\* C5: a second pass with the same tolerance changes nothing.
C5_Idempotent == [][passes = 1 /\ passes' = 2 => keyframes' = keyframes]_vars

\* C5 happens: the second pass ran on a list from which the first had
\* removed a bone and kept another.
C5_Witness ==
    /\ passes = 2
    /\ keyframes # <<>>
    /\ keyframes # unfiltered

\* C6: a bone removed with a tolerance is removed with every larger one: the
\* bones a pass with a larger tolerance would leave in the list it was
\* given are among those this pass left.
C6_Monotone ==
    Filtered =>
        \A eps \in Epsilons :
            eps >= epsilon =>
                AllBoneNames(filter_identical_bone_poses(unfiltered, eps))
                    \subseteq AllBoneNames(keyframes)

\* C6 happens: the pass with tolerance 0 kept a bone that tolerance 1
\* removes.
C6_Witness ==
    /\ Filtered
    /\ epsilon = 0
    /\ \E b \in AllBoneNames(keyframes) :
           b \notin AllBoneNames(filter_identical_bone_poses(unfiltered, 1))

(***************************************************************************)
(* Properties of the assembler.  Referents are handed out in order of      *)
(* creation: the Sequence is 1, then each keyframe's Keyframe instance     *)
(* followed by one Pose instance per pose.                                 *)
(***************************************************************************)
RECURSIVE InstancesBefore(_, _)
\* the number of instances created for the first i - 1 keyframes
InstancesBefore(kfs, i) ==
    IF i <= 1 THEN 0
    ELSE 1 + Len(kfs[i - 1].poses) + InstancesBefore(kfs, i - 1)

KeyframeRef(i) == 2 + InstancesBefore(keyframes, i)

PoseRef(i, j) == KeyframeRef(i) + j

IsChildOf(ref, parent_ref) ==
    /\ dom.instances[ref].parent = parent_ref
    /\ \E k \in DOMAIN dom.instances[parent_ref].children :
           dom.instances[parent_ref].children[k] = ref

\* the poses of keyframe i that bear the name of the parent bone_infos
\* records for the bone of pose j
ParentPoses(i, j) ==
    LET b == keyframes[i].poses[j].name
    IN IF b \in DOMAIN bone_infos /\ bone_infos[b].parent # None
       THEN {k \in DOMAIN keyframes[i].poses :
                keyframes[i].poses[k].name = bone_infos[b].parent[1]}
       ELSE {}

\* C8: in the tree built, the Pose instance of a pose is a child of the Pose
\* instance of its bone's recorded parent where that parent has a pose in
\* the same keyframe, and a child of the Keyframe instance otherwise.
C8_PoseUnderParent ==
    pc = "assembled" =>
        \A i \in DOMAIN keyframes :
            \A j \in DOMAIN keyframes[i].poses :
                IF ParentPoses(i, j) # {}
                THEN \E k \in ParentPoses(i, j) :
                         IsChildOf(PoseRef(i, j), PoseRef(i, k))
                ELSE IsChildOf(PoseRef(i, j), KeyframeRef(i))

(***************************************************************************)
(* Properties of the resolver.                                             *)
(***************************************************************************)
RECURSIVE NearestBoneAncestor(_, _, _)
\* the name of the nearest proper ancestor of node i that bears a track name
NearestBoneAncestor(nodes, i, tracks) ==
    LET p == nodes[i].parent
    IN IF p = 0 THEN None
       ELSE IF nodes[p].name \in tracks THEN Some(nodes[p].name)
       ELSE NearestBoneAncestor(nodes, p, tracks)

TrackNameSet ==
    {track.name : track \in Range(SceneTracks)}

\* C9: the table holds a name iff a node bears it and it is a track name,
\* and the parent recorded for a bone node is the name of its nearest proper
\* ancestor bearing a track name, or none.
C9_NearestBoneParent ==
    pc = "bones" =>
        /\ DOMAIN bone_infos =
               {scene.nodes[i].name : i \in DOMAIN scene.nodes}
                   \cap TrackNameSet
        /\ \A i \in DOMAIN scene.nodes :
               scene.nodes[i].name \in TrackNameSet =>
                   bone_infos[scene.nodes[i].name].parent =
                       NearestBoneAncestor(scene.nodes, i, TrackNameSet)

(***************************************************************************)
(* Properties of the comparison of transforms.                             *)
(***************************************************************************)
\* the 12 components of a transform: translation, then the rows x, y, z
Components(c) ==
    c.position \o c.orientation.x \o c.orientation.y \o c.orientation.z

Compared == result # None /\ result.call = "approx_equal_cframe"

\* C11: approx_equal_cframe(a, b, eps) returns a boolean, true iff each of
\* the 12 components of a is within eps (inclusive) of that of b, hence with
\* eps = 0 iff a = b; the call changes nothing else.
C11_WithinTolerance ==
    Compared =>
        LET a == result.args[1]
            b == result.args[2]
            eps == result.args[3]
            within == \A k \in 1..12 :
                          /\ Components(a)[k] - Components(b)[k] <= eps
                          /\ Components(b)[k] - Components(a)[k] <= eps
        IN /\ result.value \in BOOLEAN
           /\ result.value = within
           /\ eps = 0 => (result.value = (a = b))
           /\ keyframes = <<>> /\ bone_infos = EmptyMap /\ dom = None

\* C11 happens: two transforms that differ by exactly the tolerance in a
\* rotation component are found equal.
C11_Witness ==
    /\ Compared
    /\ result.value
    /\ result.args[3] = 1
    /\ \E k \in 4..12 :
           Components(result.args[1])[k] - Components(result.args[2])[k] = 1

(***************************************************************************)
(* Properties of the converter.                                            *)
(***************************************************************************)
Loading ==
    /\ result # None
    /\ result.call \in {"convert_file_to_keyframes", "convert_file_to_weakdom"}

\* C12: when the file fails to load, convert_file_to_keyframes and
\* convert_file_to_weakdom return the importer's error and nothing else: no
\* stage has run, and there is no bone table, keyframe list or tree.
C12_LoadFailureAtomic ==
    (Loading /\ result.args[1].error # None) =>
        /\ result.value = Err(result.args[1].error[1])
        /\ pc = "failed"
        /\ bone_infos = EmptyMap
        /\ unfiltered = <<>>
        /\ keyframes = <<>>
        /\ dom = None

\* C12 happens: convert_file_to_weakdom, of a converter that filters, was
\* called on a file that does not parse and returned that error.
C12_Witness ==
    /\ Loading
    /\ result.call = "convert_file_to_weakdom"
    /\ result.args[1] = Broken("unparseable")
    /\ result.value = Err("unparseable")
    /\ converter.filter_identical_bones

(***************************************************************************)
(* Properties of degenerate input.                                         *)
(***************************************************************************)
\* the tree is the Sequence root alone
RootAlone ==
    /\ dom # None
    /\ dom.root_ref = 1
    /\ Len(dom.instances) = 1
    /\ dom.instances[1].class = "KeyframeSequence"
    /\ dom.instances[1].parent = NoRef
    /\ dom.instances[1].children = <<>>

\* C13 as stated: the extractor returns the empty list for a scene with zero
\* clips, with zero tracks or without a root node, and the assembler returns
\* the Sequence root alone for the empty list, whatever the bone table.
C13_DegenerateInput ==
    /\ (pc = "extracted"
        /\ (scene.animations = <<>> \/ TotalChannels(scene) = 0
            \/ scene.nodes = <<>>))
           => keyframes = <<>>
    /\ (pc = "assembled" /\ keyframes = <<>>) => RootAlone

\* C13 amended: the extractor returns the empty list for a scene with zero
\* clips or zero tracks, with or without a root node, and the assembler
\* returns the Sequence root alone for the empty list, whatever the bone
\* table; a scene without a root node whose tracks hold keys has keyframes.
C13_DegenerateAmended ==
    /\ (pc = "extracted"
        /\ (scene.animations = <<>> \/ TotalChannels(scene) = 0))
           => keyframes = <<>>
    /\ (pc = "extracted" /\ scene.nodes = <<>>)
           => (keyframes = <<>> <=> TotalKeys(scene) = 0)
    /\ (pc = "assembled" /\ keyframes = <<>>) => RootAlone

\* C13 happens: a scene with a root node and one clip without tracks gave
\* the empty list, and the empty list gave the Sequence root alone.
C13_Witness ==
    /\ pc = "assembled"
    /\ scene.nodes # <<>>
    /\ Len(scene.animations) = 1
    /\ TotalChannels(scene) = 0
    /\ keyframes = <<>>
    /\ RootAlone

(***************************************************************************)
(* Properties of the bone table.                                           *)
(***************************************************************************)
\* the nodes of the tree that bear a track name
BoneNodes == {i \in DOMAIN scene.nodes : scene.nodes[i].name \in TrackNameSet}

\* C14: the table has as many entries as the tree has nodes bearing a track
\* name, and under the name of each such node it stores that node's own
\* rest transform and the name of its nearest ancestor bearing a track name.
C14_OneEntryPerBoneNode ==
    pc = "bones" =>
        /\ Cardinality(DOMAIN bone_infos) = Cardinality(BoneNodes)
        /\ \A i \in BoneNodes :
               LET name == scene.nodes[i].name
               IN /\ name \in DOMAIN bone_infos
                  /\ bone_infos[name].rest_transform =
                         scene.nodes[i].transformation
                  /\ bone_infos[name].parent =
                         NearestBoneAncestor(scene.nodes, i, TrackNameSet)

(***************************************************************************)
(* Properties of the configuration.                                        *)
(***************************************************************************)
\* the step is a call of the named function
Calls(name) == result' # None /\ result'.call = name

\* C15: new(f, e) makes the converter with flag f and tolerance e; each
\* builder call sets its own field to its argument and leaves the other as
\* it was; convert_scene_to_keyframes leaves the converter as it was and
\* returns the extractor's list when the flag is false, and that list passed
\* once through the filter with the converter's tolerance when it is true.
C15_HonoursConfiguration ==
    [][/\ Calls("new") =>
              /\ converter'.filter_identical_bones = result'.args[1]
              /\ converter'.epsilon = result'.args[2]
       /\ Calls("with_filter_identical_bones") =>
              /\ converter'.filter_identical_bones = result'.args[1]
              /\ converter'.epsilon = converter.epsilon
       /\ Calls("with_epsilon") =>
              /\ converter'.epsilon = result'.args[1]
              /\ converter'.filter_identical_bones =
                     converter.filter_identical_bones
       /\ Calls("convert_scene_to_keyframes") =>
              LET sc == result'.args[1]
                  extracted ==
                      extract_keyframes_from_scene(sc, get_bone_infos(sc))
              IN /\ converter' = converter
                 /\ result'.value =
                        IF converter.filter_identical_bones
                        THEN filter_identical_bone_poses(extracted,
                                                         converter.epsilon)
                        ELSE extracted]_vars

\* C15 happens: a converter with the flag set and tolerance 1 returned a
\* list out of which the filter had taken a bone that tolerance 0 keeps.
C15_Witness ==
    /\ result # None
    /\ result.call = "convert_scene_to_keyframes"
    /\ converter.filter_identical_bones
    /\ converter.epsilon = 1
    /\ result.value # unfiltered
    /\ result.value # <<>>
    /\ filter_identical_bone_poses(unfiltered, 0) = unfiltered

(***************************************************************************)
(* Properties of repeated runs.                                            *)
(***************************************************************************)
RECURSIVE NamesAmong(_, _)
\* the names of the tracks given, in order, that are among kept
NamesAmong(tracks, kept) ==
    IF tracks = <<>> THEN <<>>
    ELSE (IF Head(tracks).name \in kept THEN <<Head(tracks).name>> ELSE <<>>)
         \o NamesAmong(Tail(tracks), kept)

\* C16: the second run over the same scene with the same tolerance returns
\* the list the first returned, in whatever order either run iterated the
\* bone names; the list is in strictly ascending time, and the poses of a
\* keyframe are those of the tracks keyed at its time whose bone was kept,
\* in clip order then track order.
C16_Deterministic ==
    pc = "rerun" =>
        /\ result.value = keyframes
        /\ \A i \in DOMAIN keyframes : \A j \in DOMAIN keyframes :
               i < j => TimeLess(keyframes[i].time, keyframes[j].time)
        /\ \A i \in DOMAIN keyframes :
               [j \in DOMAIN keyframes[i].poses |->
                   keyframes[i].poses[j].name]
               = NamesAmong(TracksWithKeyAt(SceneTracks, keyframes[i].time),
                            AllBoneNames(keyframes))

\* C16 happens: the two runs iterated two bone names in opposite orders,
\* and the filter removed one bone and kept the other.
C16_Witness ==
    /\ pc = "rerun"
    /\ Len(result.args[1]) = 2
    /\ result.args[1] # result.args[2]
    /\ keyframes # <<>>
    /\ keyframes # unfiltered

(***************************************************************************)
(* Properties of the tree as a whole.                                      *)
(***************************************************************************)
RECURSIVE ReachesUp(_, _, _)
\* following parent links from ref reaches target within fuel steps
ReachesUp(ref, target, fuel) ==
    IF ref = target THEN TRUE
    ELSE IF ref = NoRef \/ fuel = 0 THEN FALSE
    ELSE ReachesUp(dom.instances[ref].parent, target, fuel - 1)

\* C17: the tree holds the Sequence, one Keyframe instance per keyframe and
\* one Pose instance per pose and nothing else; every Pose instance is
\* reached from the Sequence through the Keyframe instance of its keyframe,
\* each link being recorded in the parent's list of children; and no
\* instance is its own ancestor.
C17_NoPoseLost ==
    pc = "assembled" =>
        LET n == Len(dom.instances)
        IN /\ n = 1 + InstancesBefore(keyframes, Len(keyframes) + 1)
           /\ \A i \in DOMAIN keyframes :
                  /\ dom.instances[KeyframeRef(i)].class = "Keyframe"
                  /\ IsChildOf(KeyframeRef(i), dom.root_ref)
                  /\ \A j \in DOMAIN keyframes[i].poses :
                         /\ dom.instances[PoseRef(i, j)].class = "Pose"
                         /\ dom.instances[PoseRef(i, j)].name =
                                keyframes[i].poses[j].name
                         /\ ReachesUp(PoseRef(i, j), KeyframeRef(i), n)
                         /\ IsChildOf(PoseRef(i, j),
                                      dom.instances[PoseRef(i, j)].parent)
           /\ \A ref \in 1..n :
                  ~ReachesUp(dom.instances[ref].parent, ref, n)

(***************************************************************************)
(* Properties of the recorded hierarchy.                                   *)
(***************************************************************************)
RECURSIVE ReachesRoot(_, _)
\* following the recorded parents from bone b ends, within fuel steps, at a
\* bone without a parent
ReachesRoot(b, fuel) ==
    IF b \notin DOMAIN bone_infos THEN FALSE
    ELSE IF bone_infos[b].parent = None THEN TRUE
    ELSE IF fuel = 0 THEN FALSE
    ELSE ReachesRoot(bone_infos[b].parent[1], fuel - 1)

\* C18: in the table get_bone_infos returns, every recorded parent is itself
\* a bone of the table, no bone is its own parent, and the parents of every
\* bone lead to a bone without a parent.
C18_WellFounded ==
    pc = "bones" =>
        \A b \in DOMAIN bone_infos :
            /\ bone_infos[b].parent # None =>
                   /\ bone_infos[b].parent[1] \in DOMAIN bone_infos
                   /\ bone_infos[b].parent[1] # b
            /\ ReachesRoot(b, Cardinality(DOMAIN bone_infos))

(***************************************************************************)
(* Properties of what the simplifier leaves alone.                         *)
(***************************************************************************)
\* the bones the pass removed: named in the list given, not in the list left
Removed == AllBoneNames(unfiltered) \ AllBoneNames(keyframes)

\* the poses of a keyframe whose bone was not removed, in order
Surviving(kf) == SelectSeq(kf.poses, LAMBDA pose : pose.name \notin Removed)

RECURSIVE Survivors(_)
\* the keyframes given that keep a pose, in order, each with its time and
\* its surviving poses
Survivors(kfs) ==
    IF kfs = <<>> THEN <<>>
    ELSE (IF Surviving(Head(kfs)) # <<>>
          THEN <<Keyframe(Head(kfs).time, Surviving(Head(kfs)))>>
          ELSE <<>>)
         \o Survivors(Tail(kfs))

\* C19: a filter pass leaves, in their order, exactly the keyframes that
\* hold a pose of a bone it did not remove, each with its time and with
\* those poses, unchanged and in their order; so a keyframe is dropped only
\* if it was empty or all its poses were of removed bones, and a list in
\* ascending time stays so.
C19_OnlyRemoves ==
    Filtered =>
        /\ keyframes = Survivors(unfiltered)
        /\ (\A i, j \in DOMAIN unfiltered :
                i < j => TimeLess(unfiltered[i].time, unfiltered[j].time))
           => (\A i, j \in DOMAIN keyframes :
                   i < j => TimeLess(keyframes[i].time, keyframes[j].time))

\* C19 happens: the pass dropped a keyframe and left another with one pose
\* fewer.
C19_Witness ==
    /\ Filtered
    /\ keyframes # <<>>
    /\ Len(keyframes) < Len(unfiltered)
    /\ \E i \in DOMAIN unfiltered :
           /\ unfiltered[i].time = keyframes[1].time
           /\ Len(keyframes[1].poses) < Len(unfiltered[i].poses)

====
